------------------------------ MODULE Tokenizer ------------------------------
(***************************************************************************)
(* The tokenizer (src/tokenizer.cpp, src/bpe.cpp) and the cache it keeps   *)
(* of the pieces it has encoded.                                           *)
(*                                                                         *)
(* A token is its text: a tuple of the symbols that stand for bytes.  Its  *)
(* id only names it.  A special token is the word it is written as, so     *)
(* that none can begin inside another.  Symbols are bytes of a piece, one  *)
(* for one; a word (Utf8Text) is its own.                                  *)
(***************************************************************************)
EXTENDS UnicodeText, FiniteSets

CONSTANTS
  Merges,         \* tokenizer.ggml.merges: <<left, right>>, the best first
  Specials,       \* the words that are special tokens
  MaxEntries,     \* maximum_cache_entries (4096)
  MaxPieceBytes   \* maximum_cacheable_piece_bytes (256)

-----------------------------------------------------------------------------
(* bpe_merge *)

NoNode == 0
NoRule == 0

Rank(merges, key) ==
  LET ranks == {i \in DOMAIN merges : merges[i] = key}
  IN IF ranks = {} THEN NoRule ELSE CHOOSE i \in ranks : TRUE

Ends(g, left) == left = NoNode \/ ~g.active[left] \/ g.next[left] = NoNode
Edge(g, left) == <<g.symbol[left], g.symbol[g.next[left]]>>
Positions(g, key) == {left \in DOMAIN g.symbol : <<key, left>> \in g.occurrences}

RemoveEdge(g, left) ==
  IF Ends(g, left) THEN g ELSE [g EXCEPT !.occurrences = @ \ {<<Edge(g, left), left>>}]

\* the first occurrence of a pair makes it a candidate, known by its rank
AddEdge(merges, g, left) ==
  IF Ends(g, left) \/ Rank(merges, Edge(g, left)) = NoRule THEN g
  ELSE [g EXCEPT !.occurrences = @ \cup {<<Edge(g, left), left>>},
                 !.candidates = IF Positions(g, Edge(g, left)) # {} THEN @
                                ELSE @ \cup {Rank(merges, Edge(g, left))}]

\* the nodes of a position found when its turn came may have been merged since
Stale(g, left, key) == Ends(g, left) \/ Edge(g, left) # key

\* Mutant: the node after the merged pair still has the dead one before it.
LinkedForward(g, left, symbol) ==
  LET right == g.next[left]
  IN [g EXCEPT !.symbol[left] = symbol,
               !.next = [@ EXCEPT ![left] = g.next[right], ![right] = NoNode],
               !.active[right] = FALSE,
               !.previous[right] = NoNode]

\* left takes the place of the pair
Linked(g, left, symbol) ==
  LET right == g.next[left]
      next == g.next[right]
  IN [g EXCEPT !.symbol[left] = symbol,
               !.next = [@ EXCEPT ![left] = next, ![right] = NoNode],
               !.active[right] = FALSE,
               !.previous = Eager([i \in DOMAIN @ |-> CASE i = right -> NoNode
                                                        [] i = next -> left
                                                        [] OTHER -> @[i]])]

MergeAt(merges, g, left, rank) ==
  LET previous == g.previous[left]
      cut == RemoveEdge(RemoveEdge(RemoveEdge(g, previous), left), g.next[left])
      linked == Linked(cut, left, merges[rank][1] \o merges[rank][2])
  IN IF Stale(g, left, merges[rank]) THEN g
     ELSE AddEdge(merges, AddEdge(merges, linked, previous), left)

RECURSIVE MergeAll(_, _)
\* candidates in order of rank, each with all the positions it has then
MergeAll(merges, g) ==
  LET rank == CHOOSE r \in g.candidates : \A s \in g.candidates : r <= s
      places == SelectSeq([i \in DOMAIN g.symbol |-> i], LAMBDA i : <<merges[rank], i>> \in g.occurrences)
      taken == [g EXCEPT !.candidates = @ \ {rank},
                         !.occurrences = {o \in @ : o[1] # merges[rank]}]
      AtPlace(h, left) == MergeAt(merges, h, left, rank)
  IN IF g.candidates = {} THEN g ELSE MergeAll(merges, FoldLeft(AtPlace, taken, places))

RECURSIVE SymbolsFrom(_, _)
SymbolsFrom(g, node) ==
  IF node = NoNode THEN <<>> ELSE <<g.symbol[node]>> \o SymbolsFrom(g, g.next[node])

\* the pairs that may be merged, each where it occurs, then the merges
BpeMerge(merges, symbols) ==
  LET n == Len(symbols)
      edges == {<< <<symbols[left], symbols[left + 1]>>, left>> : left \in 1 .. n - 1}
      ranked == {edge \in edges : Rank(merges, edge[1]) # NoRule}
      nodes == [symbol |-> symbols, active |-> Eager([i \in 1 .. n |-> TRUE]),
                previous |-> Eager([i \in 1 .. n |-> i - 1]),
                next |-> Eager([i \in 1 .. n |-> IF i = n THEN NoNode ELSE i + 1]),
                occurrences |-> ranked, candidates |-> {Rank(merges, edge[1]) : edge \in ranked}]
  IN IF n < 2 THEN symbols ELSE SymbolsFrom(MergeAll(merges, nodes), 1)

-----------------------------------------------------------------------------
(* Bytes as symbols *)

Printable(byte) == byte \in 33 .. 126 \cup 161 .. 172 \cup 174 .. 255

\* byte_encoder_
ByteSymbol(byte) ==
  IF byte >= Tag \/ Printable(byte) THEN byte
  ELSE 256 + Cardinality({b \in 0 .. byte - 1 : ~Printable(b)})

ByteSymbols == [byte \in 0 .. 255 |-> ByteSymbol(byte)]

\* byte_decoder_; a symbol that stands for no byte is written as itself
SymbolBytes(symbol) ==
  LET bytes == {b \in 0 .. 255 : ByteSymbols[b] = symbol}
  IN IF bytes = {} THEN Utf8(symbol) ELSE <<CHOOSE b \in bytes : TRUE>>

Decode(tokens) ==
  LET symbols == Flat(tokens) IN Flat([i \in DOMAIN symbols |-> SymbolBytes(symbols[i])])

-----------------------------------------------------------------------------
(* encode: special tokens, and between them the pieces of the text *)

Special(symbol) == [special |-> TRUE, symbols |-> <<symbol>>]
Piece(codepoints) ==
  LET bytes == CodepointsUtf8(codepoints)
  IN [special |-> FALSE, symbols |-> Eager([i \in DOMAIN bytes |-> ByteSymbol(bytes[i])])]

\* encode_normal
NormalWork(text) ==
  LET pieces == Pretokenized(Nfc(Codepoints(text))) IN Eager([i \in DOMAIN pieces |-> Piece(pieces[i])])

\* Mutant: text of one character between two special tokens is left out.
BetweenLong(text, p, q) == IF q > p + 1 THEN NormalWork(SubSeq(text, p, q - 1)) ELSE <<>>

Between(text, p, q) == IF q > p THEN NormalWork(SubSeq(text, p, q - 1)) ELSE <<>>

RECURSIVE Work(_, _)
\* what is left to encode of the text, from p on
Work(text, p) ==
  LET specials == {q \in p .. Len(text) : text[q] \in Specials}
      next == CHOOSE q \in specials : \A r \in specials : q <= r
  IN IF specials = {} THEN Between(text, p, Len(text) + 1)
     ELSE Between(text, p, next) \o <<Special(text[next])>> \o Work(text, next + 1)

Merged(symbols) == BpeMerge(Merges, Eager([i \in DOMAIN symbols |-> <<symbols[i]>>]))

\* the tokens of a text, without a cache
Encoded(work) ==
  Flat([i \in DOMAIN work |-> IF work[i].special THEN <<work[i].symbols>> ELSE Merged(work[i].symbols)])

-----------------------------------------------------------------------------
(* encode_piece and its cache *)

VARIABLES
  todo,      \* what is left to encode of the prompt
  tokens,    \* what it has been encoded as
  cache,     \* cache_: the tokens of a piece, and its node of the recency list
  recency,   \* cache_recency_: the nodes, most recent first, with their keys
  failures   \* allocations that have failed and requests cancelled, for the bound of a check
tokenizerVars == <<todo, tokens, cache, recency, failures>>

\* Mutant: eviction drops the oldest node of the list and keeps its entry.
EvictedFromList(map, list) == [cache |-> map, recency |-> Front(list)]

\* the oldest node leaves, and the entry of its key
Evicted(map, list) ==
  [cache |-> [key \in DOMAIN map \ {list[Len(list)].key} |-> map[key]], recency |-> Front(list)]

Room == IF Cardinality(DOMAIN cache) = MaxEntries THEN Evicted(cache, recency)
        ELSE [cache |-> cache, recency |-> recency]

FreshNode(list) == CHOOSE node \in 1 .. Len(list) + 1 : \A i \in DOMAIN list : list[i].node # node
Pushed(list, key) == <<[node |-> FreshNode(list), key |-> key]>> \o list

Key == todo[1].symbols
Cacheable == Len(Key) <= MaxPieceBytes

PushSpecial ==
  /\ todo # <<>> /\ todo[1].special
  /\ tokens' = Append(tokens, Key)
  /\ todo' = Tail(todo)
  /\ UNCHANGED <<cache, recency, failures>>

Hit ==
  /\ todo # <<>> /\ ~todo[1].special /\ Key \in DOMAIN cache
  /\ LET Mine(entry) == entry.node = cache[Key].node
     IN recency' = SelectSeq(recency, Mine) \o SelectSeq(recency, LAMBDA entry : ~Mine(entry))
  /\ tokens' = tokens \o cache[Key].tokens
  /\ todo' = Tail(todo)
  /\ UNCHANGED <<cache, failures>>

Miss ==
  /\ todo # <<>> /\ ~todo[1].special /\ Key \notin DOMAIN cache
  /\ LET merged == Merged(Key)
         room == Room
         list == Pushed(room.recency, Key)
     IN /\ tokens' = tokens \o merged
        /\ IF ~Cacheable THEN UNCHANGED <<cache, recency>>
           ELSE /\ recency' = list
                /\ cache' = [key \in DOMAIN room.cache \cup {Key} |->
                               IF key = Key THEN [tokens |-> merged, node |-> list[1].node] ELSE room.cache[key]]
  /\ todo' = Tail(todo)
  /\ UNCHANGED failures

\* memory runs out after the eviction: in push_front, or in emplace after it
MissFails ==
  /\ todo # <<>> /\ ~todo[1].special /\ Key \notin DOMAIN cache /\ Cacheable
  /\ cache' = Room.cache
  /\ recency' \in {Room.recency, Pushed(Room.recency, Key)}
  /\ todo' = <<>>
  /\ tokens' = <<>>
  /\ failures' = failures + 1

\* the request is cancelled between two pieces
CancelEncoding ==
  /\ todo # <<>>
  /\ todo' = <<>>
  /\ tokens' = <<>>
  /\ failures' = failures + 1
  /\ UNCHANGED <<cache, recency>>
=============================================================================
