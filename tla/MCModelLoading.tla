---------------------------- MODULE MCModelLoading ----------------------------
\* A model of two layers and four experts in a file of some three thousand
\* words, and one fault in it.
EXTENDS ModelLoading, TLC

Letters == [a |-> 1, b |-> 2, pad |-> 7, bad |-> 8, space |-> 9]
MCSpace == Letters.space
MCPadding(i) == <<Letters.pad, i>>
MCValid(text) == Letters.bad \notin Range(text)
MCNonFinite == 4000
MCRounded(word) == word - (word % 2)

MCValueTypes == <<"u32", "i32", "f32", "boolean", "string", "array", "f64">>
MCTensorTypes == <<"i8", "i16", "i32", "f16", "bf16", "f32">>
Numbered(names, name) == (CHOOSE i \in DOMAIN names : names[i] = name) - 1

-----------------------------------------------------------------------------
(* The metadata *)

Array(type, count, words) ==
  <<Numbered(MCValueTypes, "array"), Numbered(MCValueTypes, type), count>> \o words
Scalar(type, value) == <<Numbered(MCValueTypes, type), value>>
String(words) == <<Len(words)>> \o words

Keys ==
  <<"general.architecture", "adi.model_family", "adi.expert_codec", "adi.ne_codec",
    "adi.embedding_codec", "adi.head_codec", "tokenizer.ggml.model", "tokenizer.ggml.pre",
    "tokenizer.chat_template", "adi.regular_rms_norm", "adi.gated_rms_norm",
    "adi.tokenizer_normalizer", "adi.tokenizer_pretokenizer", "general.name",
    "layer_norm_rms_epsilon", "rope.freq_base", "adi.format_version", "adi.expert.k_num",
    "adi.expert.k_den", "adi.expert.l", "adi.expert.v", "adi.expert.tlut_bits",
    "adi.expert.tile_x", "adi.expert.tile_y", "block_count", "embedding_length",
    "expert_count", "expert_used_count", "expert_feed_forward_length", "context_length",
    "expert_shared_feed_forward_length", "attention.head_count", "attention.head_count_kv",
    "full_attention_interval", "ssm.conv_kernel", "ssm.inner_size", "ssm.state_size",
    "ssm.time_step_rank", "ssm.group_count", "adi.additive", "general.alignment",
    "tokenizer.ggml.bos_token_id", "tokenizer.ggml.eos_token_id", "tokenizer.ggml.tokens",
    "tokenizer.ggml.token_type", "tokenizer.ggml.merges">>

MetadataValue(i) ==
  CASE i <= 14 -> <<Numbered(MCValueTypes, "string")>> \o String(<<3>>)
    [] i \in {15, 16} -> Scalar("f32", 3)
    [] Keys[i] = "adi.additive" -> Scalar("boolean", 1)
    [] Keys[i] = "general.alignment" -> Scalar("u32", 4)
    [] Keys[i] = "tokenizer.ggml.bos_token_id" -> Scalar("i32", 0)
    [] Keys[i] = "tokenizer.ggml.tokens" ->
         Array("string", 4, String(<<1>>) \o String(<<2>>) \o String(<<1, 2>>) \o String(MCPadding(3)))
    [] Keys[i] = "tokenizer.ggml.token_type" -> Array("u32", 4, <<1, 1, 1, 5>>)
    [] Keys[i] = "tokenizer.ggml.merges" -> Array("string", 1, String(<<1, Letters.space, 2>>))
    [] OTHER -> Scalar("u32", 3)

MCExpected(key) ==
  IF key \in FixedStrings \cup OptionalStrings THEN <<3>> ELSE 3

-----------------------------------------------------------------------------
(* The tensors: name, type, dimensions *)

T(name, type, dimensions) == [name |-> name, type |-> type, dimensions |-> dimensions]

NonExpertTensors(l, item, rows, columns) ==
  <<T(Codec(l, item, "trellis"), "i16", <<NeTileWords, Tiles(rows, columns)>>),
    T(Codec(l, item, "SU"), "i8", <<columns>>),
    T(Codec(l, item, "SV"), "i8", <<rows>>),
    T(Codec(l, item, "Wscale"), "f32", <<1>>)>>

ExpertTensors(l, c, projection) ==
  <<T(Chunk(l, c, projection, "trellis"), "i16", PartDimensions(projection, "trellis"))>>
  \o [i \in 1 .. 3 |-> LET part == <<"su", "sv", "wave_gamma">>[i]
                       IN T(Chunk(l, c, projection, part), "f16", PartDimensions(projection, part))]

DenseTensor(l, item, dimensions) == T(Dense(l, item), "bf16", dimensions)

LayerTensors(l) ==
  <<DenseTensor(l, "input_layernorm", <<Hidden>>),
    DenseTensor(l, "post_attention_layernorm", <<Hidden>>),
    DenseTensor(l, "mlp.gate", <<Hidden, Experts>>),
    DenseTensor(l, "mlp.shared_expert_gate", <<Hidden, 1>>)>>
  \o NonExpertTensors(l, "gate_proj", ExpertHidden, Hidden)
  \o NonExpertTensors(l, "up_proj", ExpertHidden, Hidden)
  \o NonExpertTensors(l, "down_proj", Hidden, ExpertHidden)
  \o FlattenSeq([n \in 1 .. 2 |-> FlattenSeq([p \in 1 .. 3 |->
       ExpertTensors(l, (n - 1) * ExpertChunk, Projections[p])])])
  \o IF IsFull(l)
     THEN NonExpertTensors(l, "q_proj", QueryRows, Hidden)
          \o NonExpertTensors(l, "k_proj", KeyRows, Hidden)
          \o NonExpertTensors(l, "v_proj", KeyRows, Hidden)
          \o NonExpertTensors(l, "o_proj", Hidden, Inner)
          \o <<DenseTensor(l, "q_norm", <<HeadWidth>>), DenseTensor(l, "k_norm", <<HeadWidth>>)>>
     ELSE NonExpertTensors(l, "in_proj_qkv", Channels, Hidden)
          \o NonExpertTensors(l, "in_proj_z", Inner, Hidden)
          \o NonExpertTensors(l, "out_proj", Hidden, Inner)
          \o <<DenseTensor(l, "in_proj_a", <<Hidden, Heads>>),
               DenseTensor(l, "in_proj_b", <<Hidden, Heads>>),
               DenseTensor(l, "dt_bias", <<Heads>>), DenseTensor(l, "A_log", <<Heads>>),
               DenseTensor(l, "norm", <<StateWidth>>),
               DenseTensor(l, "conv1d", <<Kernel, 1, Channels>>)>>

Tensors ==
  <<T(Global("tlut.expert"), "f32", <<ExpertValues, 2 ^ (StateBits - 1)>>),
    T(Global("tlut.ne"), "f32", <<NeValues, 2 ^ NeRowBits>>),
    T(Global("q_packed"), "i8", <<Hidden \div 2, Vocabulary>>),
    T(Global("mn"), "f16", <<Hidden \div Group, Vocabulary>>),
    T(Global("mx"), "f16", <<Hidden \div Group, Vocabulary>>),
    T(Global("exc_idx"), "i32", <<3>>),
    T(Global("exc_bits"), "i16", <<3>>),
    T(Global("norm"), "bf16", <<Hidden>>),
    T(HeadTensor(0, "qp"), "i8", <<PackedWidth, HeadRows>>),
    T(HeadTensor(0, "gscale"), "f16", <<Hidden \div Group, HeadRows>>),
    T(HeadTensor(1, "qp"), "i8", <<PackedWidth, HeadRows>>),
    T(HeadTensor(1, "gscale"), "f16", <<Hidden \div Group, HeadRows>>),
    T(HeadTensor(1, "prot_rows"), "i32", <<2>>),
    T(HeadTensor(1, "prot_dense"), "bf16", <<Hidden, 2>>)>>
  \o LayerTensors(0) \o LayerTensors(1)

-----------------------------------------------------------------------------
(* The file: header, metadata, directory, padding, data *)

Strings ==
  <<"", "mach", "hf", "mach.ne", "mach.expert", "mach.output", "gate", "up", "down",
    "trellis", "SU", "SV", "Wscale", "su", "sv", "wave_gamma", "qp", "gscale", "prot_rows",
    "prot_dense", "gate_proj", "up_proj", "down_proj", "q_proj", "k_proj", "v_proj", "o_proj",
    "in_proj_qkv", "in_proj_z", "out_proj", "input_layernorm", "post_attention_layernorm",
    "mlp.gate", "mlp.shared_expert_gate", "q_norm", "k_norm", "in_proj_a", "in_proj_b",
    "conv1d", "dt_bias", "A_log", "norm", "tlut.expert", "tlut.ne", "q_packed", "mn", "mx",
    "exc_idx", "exc_bits">>
  \o Keys
StringNumber == [string \in Range(Strings) |-> Numbered(Strings, string)]
MCName(name) == <<StringNumber[name[1]], name[2], name[3], StringNumber[name[4]], StringNumber[name[5]]>>

\* Op(value), for which TLC evaluates the value once
Once(Op(_), value) == CHOOSE result \in {Op(v) : v \in {value}} : TRUE

Size(t) == FoldLeft(LAMBDA n, d : n * d, 1, t.dimensions)
Padded(n) == ((n + 3) \div 4) * 4
Bytes(t) == Padded(Size(t) * ElementSize(t.type))

TensorInfo(t, offset) ==
  String(MCName(t.name)) \o <<Len(t.dimensions)>> \o t.dimensions
  \o <<Numbered(MCTensorTypes, t.type), offset>>

Fill(t, i) ==
  CASE t.name[4] \in {"exc_idx"} -> 2 * i
    [] t.name[5] = "prot_rows" -> i
    [] t.name[5] \in {"SU", "SV", "Wscale"} -> 1
    [] t.name[4] = "mn" -> 2
    [] OTHER -> 3 + (i % 5)

Data(t) ==
  [w \in 1 .. Bytes(t) |->
     LET size == ElementSize(t.type) IN
     IF (w - 1) % size = 0 /\ (w - 1) \div size < Size(t) THEN Fill(t, (w - 1) \div size) ELSE 0]

MetadataWords ==
  FlattenSeq([i \in DOMAIN Keys |-> String(MCName(Key(Keys[i]))) \o MetadataValue(i)])
Prefix(tensors) ==
  LET offset[i \in 1 .. Len(tensors)] == IF i = 1 THEN 0 ELSE offset[i - 1] + Bytes(tensors[i - 1])
  IN <<77, 3, Len(tensors), Len(Keys)>> \o MetadataWords
     \o FlattenSeq([i \in DOMAIN tensors |-> TensorInfo(tensors[i], offset[i])])
FileOf(tensors) ==
  LET Pad(words) == words \o [i \in 1 .. Padded(Len(words)) - Len(words) |-> 0]
  IN Once(Pad, Prefix(tensors)) \o FlattenSeq([i \in DOMAIN tensors |-> Data(tensors[i])])
MCImage == Once(FileOf, Tensors)

-----------------------------------------------------------------------------
(* What may be wrong with it *)

Changed(at, values, size) == {[at |-> at, value |-> value, size |-> size] : value \in values}

\* the file of `size` words, its directory from word `from` and its data from `start`
FaultsOf(tensors, size, from, start) ==
  LET info[i \in 1 .. Len(tensors) + 1] ==
        IF i = 1 THEN from ELSE info[i - 1] + Len(TensorInfo(tensors[i - 1], 0))
      data[i \in 1 .. Len(tensors) + 1] ==
        IF i = 1 THEN start ELSE data[i - 1] + Bytes(tensors[i - 1])
      In(parts) == {i \in DOMAIN tensors : {tensors[i].name[4], tensors[i].name[5]} \cap parts # {}}
  IN UNION {Changed(-1, {0}, cut) : cut \in 0 .. 20 \cup {start - 1, start, size - 1, size}}
     \cup UNION {Changed(at, {MaxWord}, size) : at \in 0 .. from - 1}
     \cup UNION {Changed(at, {0, 1}, size) : at \in 0 .. 15 \cup from - 60 .. from - 1}
     \cup UNION {Changed(at, {0, 2 ^ (WordBits - 1)}, size) : at \in from .. info[15] - 1}
     \cup UNION {Changed(info[i + 1] - 1, {1, MaxWord - start + 5}, size) : i \in 1 .. 40}
     \cup UNION {Changed(data[i], {MCNonFinite}, size) : i \in DOMAIN tensors}
     \cup UNION {Changed(at, {0, 2, 4, 16}, size) :
                   at \in UNION {data[i] .. data[i + 1] - 1 : i \in In({"exc_idx", "prot_rows"})}}

MCFaults ==
  LET OfFile(file) == FaultsOf(Tensors, Len(file), 4 + Len(MetadataWords), Padded(Len(Prefix(Tensors))))
  IN Once(OfFile, MCImage)
=============================================================================
